---------------------------- MODULE Spec2Model ----------------------------
(***************************************************************************)
(* Model of goldmark-headingid (src/headingid.go): the slugify function    *)
(* and the ids registry (NewIDs, Generate, Put).                           *)
(*                                                                         *)
(* Texts and identifiers are Go byte slices: sequences of bytes 0..255.    *)
(* Code points (runes) are naturals.                                       *)
(*                                                                         *)
(* Two specifications share the variables:                                 *)
(*   Spec      one registry instance driven by Generate and Put calls;     *)
(*   SpecSlug  one call of slugify(text, '-') on a bounded input.          *)
(* Three more follow the code statement by statement:                     *)
(*   SpecSlugLoop  slugify, one loop iteration per step;                   *)
(*   SpecSerial, SpecRace  Generate and Put of several callers, one map    *)
(*             access per step, with and without the host's serialization; *)
(*   SpecAlias  the registry with the memory its keys share with callers.  *)
(***************************************************************************)
EXTENDS Naturals, Sequences, FiniteSets, TLC

VARIABLES
    values,   \* ids.values: the keys of the map[string]bool
    log,      \* history of the calls made on the registry (ghost)
    text,     \* SpecSlug: the argument of the slugify call
    slug,     \* SpecSlug: the value slugify returned
    pc,       \* SpecSlug: "call" before the call, "done" after; "idle" in Spec
    loop,     \* SpecSlugLoop: the state of the loop of slugify
    run,      \* SpecSerial, SpecRace: the Generate/Put call each caller is in
    mem       \* SpecAlias: the byte buffers and the keys of the map

vars == <<values, log, text, slug, pc, loop, run, mem>>

---------------------------------------------------------------------------
(* Bounds of the model *)

\* longest enumerated slugify input, in bytes
MaxLen == 4
\* number of Generate/Put calls made on the registry
MaxCalls == 3

---------------------------------------------------------------------------
(* unicode/utf8 and unicode, as used by slugify *)

\* utf8.RuneError, U+FFFD
RuneError == 65533
\* utf8.RuneSelf: runes below it are single bytes
RuneSelf == 128
\* the separator Generate passes to slugify: '-'
Sep == 45

\* utf8.DecodeRune(p): the first rune of p and its width in bytes; an invalid
\* or short encoding decodes as (RuneError, 1), the empty slice as (RuneError, 0).
DecodeRune(p) ==
    LET n    == Len(p)
        err1 == [r |-> RuneError, size |-> 1]
    IN  IF n < 1 THEN [r |-> RuneError, size |-> 0]
        ELSE
        LET p0 == p[1] IN
        IF p0 < 128 THEN [r |-> p0, size |-> 1]
        ELSE IF p0 < 194 \/ p0 > 244 THEN err1
        ELSE
        LET sz == IF p0 < 224 THEN 2 ELSE IF p0 < 240 THEN 3 ELSE 4
            lo == IF p0 = 224 THEN 160 ELSE IF p0 = 240 THEN 144 ELSE 128
            hi == IF p0 = 237 THEN 159 ELSE IF p0 = 244 THEN 143 ELSE 191
        IN  IF n < sz THEN err1
            ELSE IF p[2] < lo \/ hi < p[2] THEN err1
            ELSE IF sz <= 2 THEN [r |-> (p0 % 32) * 64 + (p[2] % 64), size |-> 2]
            ELSE IF p[3] < 128 \/ 191 < p[3] THEN err1
            ELSE IF sz <= 3
                 THEN [r |-> (p0 % 16) * 4096 + (p[2] % 64) * 64 + (p[3] % 64),
                       size |-> 3]
            ELSE IF p[4] < 128 \/ 191 < p[4] THEN err1
            ELSE [r |-> (p0 % 8) * 262144 + (p[2] % 64) * 4096
                        + (p[3] % 64) * 64 + (p[4] % 64),
                  size |-> 4]

\* unicode.ToLower(r) for r >= RuneSelf. Exact on U+0080..U+017F (Latin-1
\* Supplement, Latin Extended-A), U+0400..U+042F and U+212A, U+212B; the
\* other case ranges of the Unicode tables are not reproduced (identity).
ToLower(r) ==
    IF (r >= 192 /\ r <= 214) \/ (r >= 216 /\ r <= 222) THEN r + 32
    ELSE IF r = 304 THEN 105                      \* U+0130 -> 'i'
    ELSE IF r = 376 THEN 255                      \* U+0178 -> U+00FF
    ELSE IF (r >= 256 /\ r <= 303) \/ (r >= 306 /\ r <= 311)
            \/ (r >= 330 /\ r <= 375)
         THEN (IF r % 2 = 0 THEN r + 1 ELSE r)
    ELSE IF (r >= 313 /\ r <= 328) \/ (r >= 377 /\ r <= 382)
         THEN (IF r % 2 = 1 THEN r + 1 ELSE r)
    ELSE IF r >= 1024 /\ r <= 1039 THEN r + 80
    ELSE IF r >= 1040 /\ r <= 1071 THEN r + 32
    ELSE IF r = 8490 THEN 107                     \* U+212A KELVIN SIGN -> 'k'
    ELSE IF r = 8491 THEN 229                     \* U+212B ANGSTROM SIGN -> U+00E5
    ELSE r

\* unicode.IsLetter(r) for r >= RuneSelf, on the ranges the inputs reach.
IsLetter(r) ==
    \/ r \in {170, 181, 186}
    \/ (r >= 192 /\ r <= 214) \/ (r >= 216 /\ r <= 246) \/ (r >= 248 /\ r <= 383)
    \/ (r >= 1024 /\ r <= 1153)
    \/ r \in {8490, 8491}
    \/ (r >= 19968 /\ r <= 40959)
    \/ (r >= 82944 /\ r <= 83526)

\* unicode.IsDigit(r) for r >= RuneSelf (category Nd), on the ranges the inputs reach.
IsDigit(r) ==
    \/ (r >= 1632 /\ r <= 1641)
    \/ (r >= 65296 /\ r <= 65305)

---------------------------------------------------------------------------
(* The transliteration table *)

repl ==
       (225 :> <<97>>) @@ (224 :> <<97>>) @@ (226 :> <<97>>)
    @@ (228 :> <<97>>) @@ (227 :> <<97>>) @@ (229 :> <<97>>)
    @@ (233 :> <<101>>) @@ (232 :> <<101>>) @@ (234 :> <<101>>) @@ (235 :> <<101>>)
    @@ (237 :> <<105>>) @@ (236 :> <<105>>) @@ (238 :> <<105>>) @@ (239 :> <<105>>)
    @@ (305 :> <<105>>)
    @@ (243 :> <<111>>) @@ (242 :> <<111>>) @@ (244 :> <<111>>)
    @@ (246 :> <<111>>) @@ (245 :> <<111>>)
    @@ (250 :> <<117>>) @@ (249 :> <<117>>) @@ (251 :> <<117>>) @@ (252 :> <<117>>)
    @@ (287 :> <<103>>) @@ (241 :> <<110>>) @@ (231 :> <<99>>)
    @@ (253 :> <<121>>) @@ (255 :> <<121>>)
    @@ (254 :> <<116, 104>>) @@ (240 :> <<100>>)
    @@ (230 :> <<97, 101>>) @@ (339 :> <<111, 101>>)

---------------------------------------------------------------------------
(* slugify *)

\* State of the loop of slugify: the unread input, the output buffer and the
\* flag "the last byte written is a separator".
slugStart(input) == [rest |-> input, out |-> <<>>, prevSep |-> FALSE]

\* out.WriteByte / out.WriteString of an emitted letter or digit.
writeOut(st, bytes) == [st EXCEPT !.out = @ \o bytes, !.prevSep = FALSE]

\* asciiLower with a fault: the letter is copied as is
asciiLower_Identity(r) == r

\* byte(r + ('a' - 'A'))
asciiLower(r) == r + 32

\* writeSep with a fault: the separator is written without looking at prevSep
writeSep_NoCollapse(st, sep) ==
    IF Len(st.out) > 0
    THEN [st EXCEPT !.out = Append(@, sep), !.prevSep = TRUE]
    ELSE st

\* if !prevSep && out.Len() > 0 { out.WriteByte(sep); prevSep = true }
writeSep(st, sep) ==
    IF ~st.prevSep /\ Len(st.out) > 0
    THEN [st EXCEPT !.out = Append(@, sep), !.prevSep = TRUE]
    ELSE st

\* advance with a fault: an undecodable byte is not consumed
advance_ValidOnly(rest, size) ==
    IF DecodeRune(rest).r = RuneError /\ size = 1
    THEN rest
    ELSE SubSeq(rest, size + 1, Len(rest))

\* in = in[size:]
advance(rest, size) == SubSeq(rest, size + 1, Len(rest))

\* One iteration of the loop: decode a rune, consume it, emit.
slugStep(st, sep) ==
    LET d  == DecodeRune(st.rest)
        r  == d.r
        s1 == [st EXCEPT !.rest = advance(st.rest, d.size)]
    IN  IF r < RuneSelf
        THEN IF r >= 65 /\ r <= 90 THEN writeOut(s1, <<asciiLower(r)>>)
             ELSE IF (r >= 97 /\ r <= 122) \/ (r >= 48 /\ r <= 57)
                  THEN writeOut(s1, <<r>>)
             ELSE writeSep(s1, sep)
        ELSE IF ToLower(r) \in DOMAIN repl THEN writeOut(s1, repl[ToLower(r)])
        ELSE IF IsLetter(r) \/ IsDigit(r) THEN writeSep(s1, sep)
        ELSE writeSep(s1, sep)

RECURSIVE slugLoop(_, _)
\* for len(in) > 0 { ... }
slugLoop(st, sep) ==
    IF Len(st.rest) > 0 THEN slugLoop(slugStep(st, sep), sep) ELSE st

\* trimTrailing with a fault: the last byte is dropped whatever it is
trimTrailing_Always(b, sep) ==
    IF Len(b) > 0 THEN SubSeq(b, 1, Len(b) - 1) ELSE b

\* trimTrailing with a fault: the trailing separator is kept
trimTrailing_Keep(b, sep) == b

\* if len(b) > 0 && b[len(b)-1] == sep { b = b[:len(b)-1] }
trimTrailing(b, sep) ==
    IF Len(b) > 0 /\ b[Len(b)] = sep THEN SubSeq(b, 1, Len(b) - 1) ELSE b

\* if len(b) > 0 && b[0] == sep { b = b[1:] }
trimLeading(b, sep) ==
    IF Len(b) > 0 /\ b[1] = sep THEN SubSeq(b, 2, Len(b)) ELSE b

slugify(input, sep) ==
    IF Len(input) = 0 THEN <<>>
    ELSE trimLeading(trimTrailing(slugLoop(slugStart(input), sep).out, sep), sep)

\* the values of loop, run and mem in the specifications that do not use them
NoLoop == [st |-> slugStart(<<>>), iters |-> 0, prevOut |-> <<>>,
           lastR |-> 0, lastSize |-> 0]
NoRun == [c \in {} |-> 0]
NoMem == [heap |-> <<>>, keys |-> {}, issued |-> <<>>]

---------------------------------------------------------------------------
(* SpecSlug: one call of slugify(text, '-') *)

\* Bytes the enumerated inputs are made of: '!', '-', '7', 'Z', 'a', two
\* continuation bytes (0x9E, 0xB0), two lead bytes (0xC3, 0xC4) and the
\* never-valid byte 0xFF.  C3 9E = U+00DE, C3 B0 = U+00F0, C4 9E = U+011E,
\* C4 B0 = U+0130.
SlugBytes == {33, 45, 55, 90, 97, 158, 176, 195, 196, 255}

BoundedSeq(S, n) == UNION {[1..k -> S] : k \in 0..n}

txtHelloWorld == <<72, 101, 108, 108, 111, 44, 32, 87, 111, 114, 108, 100, 33>>
txtCafeMunster == <<67, 97, 102, 195, 169, 32, 77, 195, 188, 110, 115, 116, 101, 114>>
txtAbc123 == <<97, 98, 99, 49, 50, 51>>
txtBangs == <<33, 33, 33>>

\* Longer inputs: the examples of the documentation, a three-byte rune
\* (U+2014), a four-byte rune (U+1F600), U+212A, U+212B, an encoded
\* surrogate (invalid) and two-letter replacements.
SampleTexts ==
    { txtHelloWorld, txtCafeMunster, txtAbc123, txtBangs,
      <<97, 226, 128, 148, 98>>,
      <<97, 240, 159, 152, 128, 98>>,
      <<226, 132, 170>>,
      <<226, 132, 171>>,
      <<237, 160, 128>>,
      <<32, 195, 134, 115, 105, 114, 45, 45, 195, 190, 105, 110, 103, 32>> }

SlugInputs == BoundedSeq(SlugBytes, MaxLen) \cup SampleTexts

InitSlug ==
    /\ values = {}
    /\ log = <<>>
    /\ text \in SlugInputs
    /\ slug = <<>>
    /\ pc = "call"
    /\ loop = NoLoop
    /\ run = NoRun
    /\ mem = NoMem

SlugifyCall ==
    /\ pc = "call"
    /\ slug' = slugify(text, Sep)
    /\ pc' = "done"
    /\ UNCHANGED <<values, log, text, loop, run, mem>>

NextSlug == SlugifyCall

SpecSlug == InitSlug /\ [][NextSlug]_vars

---------------------------------------------------------------------------
(* The registry: ids, NewIDs, Generate, Put *)

\* ast.NodeKind: ast.KindHeading and one other kind
KindHeading == "Heading"
KindParagraph == "Paragraph"
Kinds == {KindHeading, KindParagraph}

\* []byte("heading") and []byte("id")
tokHeading == <<104, 101, 97, 100, 105, 110, 103>>
tokId == <<105, 100>>

RECURSIVE Itoa(_)
\* the %d verb: decimal digits of a non-negative int
Itoa(i) == IF i < 10 THEN <<48 + i>> ELSE Itoa(i \div 10) \o <<48 + (i % 10)>>

\* Sprintf with a fault: the suffix is one too large
Sprintf_OffByOne(result, i) == result \o <<45>> \o Itoa(i + 1)

\* fmt.Sprintf("%s-%d", result, i)
Sprintf(result, i) == result \o <<45>> \o Itoa(i)

\* fallback with a fault: the kind is ignored
fallback_AlwaysId(kind) == tokId

\* the fallback token of an empty slug
fallback(kind) == IF kind = KindHeading THEN tokHeading ELSE tokId

\* result := slugify(value,'-'); if len(result) == 0 { result = fallback }
Candidate(value, kind) ==
    LET result == slugify(value, Sep)
    IN  IF Len(result) = 0 THEN fallback(kind) ELSE result

\* suffixSearch with a fault: no membership probe; the number of ids as suffix
suffixSearch_NoProbe(vals, result, i) == Sprintf(result, i)
suffixSearch_Count(vals, result, i) == Sprintf(result, Cardinality(vals))

RECURSIVE suffixSearch(_, _, _)
\* for i := 1; ; i++ { newResult := Sprintf(...); if not in values: return }
suffixSearch(vals, result, i) ==
    IF Sprintf(result, i) \notin vals
    THEN Sprintf(result, i)
    ELSE suffixSearch(vals, result, i + 1)

\* GenerateResult with a fault: the candidate is returned without a membership test
GenerateResult_NoCheck(vals, value, kind) == Candidate(value, kind)

\* The identifier Generate returns (and inserts) when the map holds vals.
GenerateResult(vals, value, kind) ==
    LET result == Candidate(value, kind)
    IN  IF result \notin vals THEN result ELSE suffixSearch(vals, result, 1)

\* putKey with a fault: the argument is slugified first
putKey_Slugified(value) == slugify(value, Sep)

\* the key Put stores: util.BytesToReadOnlyString(value), the bytes verbatim
putKey(value) == value

\* Texts handed to Generate: "", "!!!", "Intro", "intro-1", and "\xC3\x89\xFF"
\* (U+00C9 followed by an invalid byte).
GenTexts ==
    { <<>>,
      <<33, 33, 33>>,
      <<73, 110, 116, 114, 111>>,
      <<105, 110, 116, 114, 111, 45, 49>>,
      <<195, 137, 255>> }

\* Identifiers handed to Put: "intro", "intro-1", "intro-2", "heading", "Intro".
PutArgs ==
    { <<105, 110, 116, 114, 111>>,
      <<105, 110, 116, 114, 111, 45, 49>>,
      <<105, 110, 116, 114, 111, 45, 50>>,
      <<104, 101, 97, 100, 105, 110, 103>>,
      <<73, 110, 116, 114, 111>> }

\* NewIDs(): an empty map; no call made yet
Init ==
    /\ values = {}
    /\ log = <<>>
    /\ text = <<>>
    /\ slug = <<>>
    /\ pc = "idle"
    /\ loop = NoLoop
    /\ run = NoRun
    /\ mem = NoMem

\* ids.Generate(value, kind). The log entry records the call, the map's keys
\* when the call started (pre) and the returned identifier (ret).
Generate(value, kind) ==
    /\ Len(log) < MaxCalls
    /\ LET ret == GenerateResult(values, value, kind)
       IN  /\ values' = values \cup {ret}
           /\ log' = Append(log, [op |-> "Generate", arg |-> value, kind |-> kind,
                                  pre |-> values, ret |-> ret])
    /\ UNCHANGED <<text, slug, pc, loop, run, mem>>

\* ids.Put(value): no return value (ret records the empty slice).
Put(value) ==
    /\ Len(log) < MaxCalls
    /\ values' = values \cup {putKey(value)}
    /\ log' = Append(log, [op |-> "Put", arg |-> value, kind |-> "none",
                           pre |-> values, ret |-> <<>>])
    /\ UNCHANGED <<text, slug, pc, loop, run, mem>>

Next ==
    \/ \E value \in GenTexts, kind \in Kinds : Generate(value, kind)
    \/ \E value \in PutArgs : Put(value)

Spec == Init /\ [][Next]_vars

---------------------------------------------------------------------------
(* Vocabulary of the properties *)

\* the string a call issued: the identifier Generate returned, or the
\* identifier Put was given
Issued(e) == IF e.op = "Generate" THEN e.ret ELSE e.arg

\* the last call made
Last == log[Len(log)]

\* c-k
Suffixed(c, k) == c \o <<45>> \o Itoa(k)

\* c, c-1, c-2, ... as far as a registry of this many calls can reach
Family(c) == {c} \cup {Suffixed(c, k) : k \in 1..(MaxCalls + 1)}

\* a-z, 0-9
IsAlnumByte(b) == (b >= 97 /\ b <= 122) \/ (b >= 48 /\ b <= 57)

txtIntro == <<73, 110, 116, 114, 111>>
idIntro == <<105, 110, 116, 114, 111>>
idIntro1 == <<105, 110, 116, 114, 111, 45, 49>>

---------------------------------------------------------------------------
(* Properties of the registry, checked under Spec *)

\* C1 (as stated): every string returned by Generate or reserved by Put is
\* distinct from every other string ever returned or reserved, Put after
\* Generate and Put called twice included.
C1_AllIssuedDistinct ==
    \A i, j \in 1..Len(log) : i # j => Issued(log[i]) # Issued(log[j])

\* C1 (amended): every string returned by Generate is distinct from every
\* other string returned by Generate and from every string reserved by Put
\* before that Generate call; Put itself may repeat an issued string.
C1_GeneratedDistinct ==
    \A j \in 1..Len(log) :
        log[j].op = "Generate" =>
            \A i \in 1..Len(log) :
                (i # j /\ (log[i].op = "Generate" \/ i < j))
                    => Issued(log[i]) # log[j].ret

\* Put(s), Put(s) again, then a Generate whose candidate is s
C1_Witness ==
    \E i, j, k \in 1..Len(log) :
        /\ i < j /\ j < k
        /\ log[i].op = "Put" /\ log[j].op = "Put" /\ log[i].arg = log[j].arg
        /\ log[k].op = "Generate"
        /\ Candidate(log[k].arg, log[k].kind) = log[i].arg

\* C2: Generate never returns a string that was in the set when the call
\* started.
C2_FreshAtCall ==
    \A j \in 1..Len(log) :
        log[j].op = "Generate" => log[j].ret \notin log[j].pre

\* a Generate call whose candidate and whose first suffix were both taken
C2_Witness ==
    /\ Len(log) >= 3
    /\ Last.op = "Generate"
    /\ Candidate(Last.arg, Last.kind) \in Last.pre
    /\ Suffixed(Candidate(Last.arg, Last.kind), 1) \in Last.pre

\* C3: with c the candidate, Generate returns and inserts c when c is not in
\* the set, and otherwise c-k for the smallest k >= 1 with c-k not in the
\* set; Put("intro") then Generate("Intro", heading) returns "intro-1".
C3_SmallestFreeSuffix ==
    Len(log) > 0 /\ Last.op = "Generate" =>
        LET c == Candidate(Last.arg, Last.kind) IN
        /\ c \notin Last.pre => Last.ret = c
        /\ c \in Last.pre =>
              \E k \in 1..(Cardinality(Last.pre) + 1) :
                  /\ Last.ret = Suffixed(c, k)
                  /\ Suffixed(c, k) \notin Last.pre
                  /\ \A m \in 1..(k - 1) : Suffixed(c, m) \in Last.pre
        /\ values = Last.pre \cup {Last.ret}
        /\ (Len(log) = 2 /\ log[1].op = "Put" /\ log[1].arg = idIntro
              /\ Last.arg = txtIntro /\ Last.kind = KindHeading)
               => Last.ret = idIntro1

\* the candidate and c-2 are taken, c-1 is free: the search must stop at 1
C3_Witness ==
    /\ Len(log) > 0 /\ Last.op = "Generate"
    /\ Candidate(Last.arg, Last.kind) \in Last.pre
    /\ Suffixed(Candidate(Last.arg, Last.kind), 2) \in Last.pre
    /\ Last.ret = Suffixed(Candidate(Last.arg, Last.kind), 1)

\* the earlier Generate calls with the candidate of call j
SameCandBefore(j) ==
    {i \in 1..(j - 1) :
        /\ log[i].op = "Generate"
        /\ Candidate(log[i].arg, log[i].kind) = Candidate(log[j].arg, log[j].kind)}

\* C4: repeated Generate calls with the candidate x return x, x-1, x-2, ...
\* in that order: when x and its suffixed forms entered the set only through
\* Generate calls with candidate x, the n-th such call returns x for n = 1
\* and x-(n-1) for n > 1.
C4_SuffixMonotonic ==
    \A j \in 1..Len(log) :
        log[j].op = "Generate" =>
            LET x == Candidate(log[j].arg, log[j].kind)
                n == Cardinality(SameCandBefore(j)) + 1
            IN  (Family(x) \cap log[j].pre) \subseteq {log[i].ret : i \in SameCandBefore(j)}
                    => log[j].ret = (IF n = 1 THEN x ELSE Suffixed(x, n - 1))

\* three Generate calls with identical text and kind and nothing else
C4_Witness ==
    /\ Len(log) = 3
    /\ \A i \in 1..3 : /\ log[i].op = "Generate"
                       /\ log[i].arg = log[1].arg
                       /\ log[i].kind = log[1].kind
    /\ log[3].ret = Suffixed(log[1].ret, 2)

\* C5: the set is exactly the strings returned by Generate together with the
\* strings passed to Put; each call adds exactly its string (Put its
\* argument verbatim) to the set it found, and removes nothing.
C5_SetIsIssued ==
    /\ values = {Issued(log[i]) : i \in 1..Len(log)}
    /\ Len(log) > 0 => /\ values = Last.pre \cup {Issued(Last)}
                       /\ Last.pre = {Issued(log[i]) : i \in 1..(Len(log) - 1)}

\* Put("Intro") (not a slug) after a Generate, and Put of a present string
C5_Witness ==
    /\ txtIntro \in values
    /\ \E i, j \in 1..Len(log) : i < j /\ log[i].op = "Generate" /\ log[j].op = "Put"
    /\ Len(log) > 0 /\ Last.op = "Put" /\ Last.arg \in Last.pre

\* C6: when the slug of the text is empty the candidate is "heading" for the
\* heading kind and "id" for any other kind (returned as is on first use,
\* suffixed on repeats); when the slug is not empty every kind gives the same
\* result.
C6_FallbackPolicy ==
    Len(log) > 0 /\ Last.op = "Generate" =>
        IF slugify(Last.arg, 45) = <<>>
        THEN LET tok == IF Last.kind = KindHeading THEN tokHeading ELSE tokId
             IN  /\ tok \notin Last.pre => Last.ret = tok
                 /\ tok \in Last.pre =>
                        /\ Last.ret # tok
                        /\ Last.ret \in Family(tok)
        ELSE /\ Last.ret \in Family(slugify(Last.arg, 45))
             /\ \A k \in Kinds : GenerateResult(Last.pre, Last.arg, k) = Last.ret

\* "heading" then "heading-1", then "id", from unconvertible texts
C6_Witness ==
    /\ Len(log) = 3
    /\ \A i \in 1..3 : log[i].op = "Generate" /\ slugify(log[i].arg, 45) = <<>>
    /\ log[1].ret = tokHeading /\ log[2].ret = Suffixed(tokHeading, 1)
    /\ log[3].ret = tokId

\* C7: the identifier Generate returns is never empty and holds only a-z,
\* 0-9 and '-'.
C7_IdentifierCharset ==
    \A j \in 1..Len(log) :
        log[j].op = "Generate" =>
            /\ Len(log[j].ret) > 0
            /\ \A p \in 1..Len(log[j].ret) :
                   IsAlnumByte(log[j].ret[p]) \/ log[j].ret[p] = 45

\* Generate on the empty text, on a malformed text and on a text with an
\* upper-case letter whose slug was reserved
C7_Witness ==
    /\ Len(log) = 3
    /\ \E j \in 1..Len(log) : log[j].op = "Generate" /\ log[j].arg = <<>>
    /\ \E j \in 1..Len(log) : log[j].op = "Generate" /\ log[j].arg = <<195, 137, 255>>
    /\ \E j \in 1..Len(log) : log[j].op = "Generate" /\ log[j].arg = txtIntro

---------------------------------------------------------------------------
(* Properties of slugify, checked under SpecSlug *)

txtAesirThing == <<32, 195, 134, 115, 105, 114, 45, 45, 195, 190, 105, 110, 103, 32>>
slugAesirThing == <<97, 101, 115, 105, 114, 45, 116, 104, 105, 110, 103>>
slugHelloWorld == <<104, 101, 108, 108, 111, 45, 119, 111, 114, 108, 100>>
slugCafeMunster == <<99, 97, 102, 101, 45, 109, 117, 110, 115, 116, 101, 114>>

\* C8: slugify(text, '-') holds only a-z, 0-9 and '-', does not start or end
\* with '-' and has no two adjacent '-'.
C8_SlugWellFormed ==
    pc = "done" =>
        /\ \A p \in 1..Len(slug) : IsAlnumByte(slug[p]) \/ slug[p] = 45
        /\ Len(slug) > 0 => slug[1] # 45 /\ slug[Len(slug)] # 45
        /\ \A p \in 1..(Len(slug) - 1) : ~(slug[p] = 45 /\ slug[p + 1] = 45)

\* leading and trailing blanks and "--" inside: " Æsir--þing "
C8_Witness ==
    pc = "done" /\ text = txtAesirThing /\ slug = slugAesirThing

RECURSIVE Runes(_)
\* the code points of a text, decoded left to right
Runes(p) ==
    IF Len(p) = 0 THEN <<>>
    ELSE LET d == DecodeRune(p)
         IN  <<d.r>> \o Runes(SubSeq(p, d.size + 1, Len(p)))

\* what a code point emits; <<>> for a gap
Emission(r) ==
    IF r >= 65 /\ r <= 90 THEN <<r + 32>>
    ELSE IF IsAlnumByte(r) THEN <<r>>
    ELSE IF r >= 128 /\ ToLower(r) \in DOMAIN repl THEN repl[ToLower(r)]
    ELSE <<>>

RECURSIVE Concat(_)
Concat(ss) == IF ss = <<>> THEN <<>> ELSE Head(ss) \o Concat(Tail(ss))

RECURSIVE RunsOf(_)
\* the emissions of the maximal runs of emitting code points, in order
RunsOf(rs) ==
    IF rs = <<>> THEN <<>>
    ELSE IF Emission(rs[1]) = <<>> THEN RunsOf(Tail(rs))
    ELSE LET n == CHOOSE k \in 1..Len(rs) :
                      /\ \A i \in 1..k : Emission(rs[i]) # <<>>
                      /\ k = Len(rs) \/ Emission(rs[k + 1]) = <<>>
         IN  <<Concat([i \in 1..n |-> Emission(rs[i])])>>
                 \o RunsOf(SubSeq(rs, n + 1, Len(rs)))

RECURSIVE JoinRuns(_)
\* the runs with one '-' between consecutive runs
JoinRuns(runs) ==
    IF runs = <<>> THEN <<>>
    ELSE IF Len(runs) = 1 THEN runs[1]
    ELSE runs[1] \o <<45>> \o JoinRuns(Tail(runs))

\* C9: slugify(text, '-') is the concatenation of the emissions of each
\* maximal run of emitting code points, with exactly one '-' between
\* consecutive runs; "Hello, World!" -> "hello-world", "Café
\* Münster" -> "cafe-munster", "abc123" -> "abc123", "" and "!!!" -> "".
C9_SlugIsJoinedRuns ==
    pc = "done" =>
        /\ slug = JoinRuns(RunsOf(Runes(text)))
        /\ text = txtHelloWorld => slug = slugHelloWorld
        /\ text = txtCafeMunster => slug = slugCafeMunster
        /\ text = txtAbc123 => slug = txtAbc123
        /\ text \in {<<>>, txtBangs} => slug = <<>>

\* the transliteration example, two runs
C9_Witness ==
    pc = "done" /\ text = txtCafeMunster /\ slug = slugCafeMunster

---------------------------------------------------------------------------
(* Case and idempotence of slugify, checked under SpecSlug *)

\* the UTF-8 encoding of a code point
EncodeRune(r) ==
    IF r < 128 THEN <<r>>
    ELSE IF r < 2048 THEN <<192 + (r \div 64), 128 + (r % 64)>>
    ELSE IF r < 65536
         THEN <<224 + (r \div 4096), 128 + ((r \div 64) % 64), 128 + (r % 64)>>
    ELSE <<240 + (r \div 262144), 128 + ((r \div 4096) % 64),
           128 + ((r \div 64) % 64), 128 + (r % 64)>>

\* the lowercase form of a code point
LowerRune(r) ==
    IF r >= 65 /\ r <= 90 THEN r + 32
    ELSE IF r >= 128 THEN ToLower(r)
    ELSE r

RECURSIVE LowerText(_)
\* a text with every code point replaced by its lowercase form; the bytes
\* of a code point that is its own lowercase form (an undecodable byte
\* included) are kept
LowerText(p) ==
    IF Len(p) = 0 THEN <<>>
    ELSE LET d == DecodeRune(p)
             l == LowerRune(d.r)
         IN  (IF l = d.r THEN SubSeq(p, 1, d.size) ELSE EncodeRune(l))
                 \o LowerText(SubSeq(p, d.size + 1, Len(p)))

\* C11: the letter case of a text never changes its slug:
\* slugify(T, '-') = slugify(T', '-') with T' the text T with every code
\* point replaced by its lowercase form.
C11_CaseInsensitive ==
    pc = "done" => slug = slugify(LowerText(text), Sep)

\* a-z, 0-9 and single interior '-'
IsCleanSlug(b) ==
    /\ \A p \in 1..Len(b) : IsAlnumByte(b[p]) \/ b[p] = 45
    /\ Len(b) > 0 => b[1] # 45 /\ b[Len(b)] # 45
    /\ \A p \in 1..(Len(b) - 1) : ~(b[p] = 45 /\ b[p + 1] = 45)

\* C16: slugify(slugify(T, '-'), '-') = slugify(T, '-'), and a text that is
\* already a clean slug is returned unchanged.
C16_Idempotent ==
    pc = "done" =>
        /\ slugify(slug, Sep) = slug
        /\ IsCleanSlug(text) => slug = text

\* a text that is not a slug, whose slug has two runs; and a clean slug
\* with an interior '-' given as the text
C16_Witness ==
    /\ pc = "done"
    /\ \/ text = txtHelloWorld /\ slug = slugHelloWorld
       \/ text = <<97, 45, 55, 97>> /\ slug = text

---------------------------------------------------------------------------
(* SpecSlugLoop: slugify(text, '-'), one loop iteration per step *)

\* Bytes of the inputs: '!', 'a', two continuation bytes (0x80, 0x94), the
\* lead bytes of a two-, three- and four-byte encoding (0xC3, 0xE2, 0xF0)
\* and the never-valid byte 0xFF.
LoopBytes == {33, 97, 128, 148, 195, 226, 240, 255}

\* "a\xFFb"; an encoded surrogate; an overlong encoding; a truncated
\* four-byte encoding; U+FFFD itself, well encoded
LoopSamples ==
    { <<97, 255, 98>>,
      <<237, 160, 128>>,
      <<97, 192, 128, 98>>,
      <<97, 240, 159, 152>>,
      <<97, 239, 191, 189, 98>> }

LoopInputs == BoundedSeq(LoopBytes, MaxLen) \cup LoopSamples

InitSlugLoop ==
    /\ values = {}
    /\ log = <<>>
    /\ text \in LoopInputs
    /\ slug = <<>>
    /\ pc = "entry"
    /\ loop = NoLoop
    /\ run = NoRun
    /\ mem = NoMem

\* if len(in) == 0 {return nil}; var out bytes.Buffer; prevSep := false
SlugEnter ==
    /\ pc = "entry"
    /\ IF Len(text) = 0
       THEN slug' = <<>> /\ pc' = "done" /\ UNCHANGED loop
       ELSE /\ loop' = [NoLoop EXCEPT !.st = slugStart(text)]
            /\ pc' = "loop"
            /\ UNCHANGED slug
    /\ UNCHANGED <<values, log, text, run, mem>>

\* one iteration of for len(in) > 0 { ... }; iters counts the iterations,
\* lastR, lastSize and prevOut record what the iteration decoded and found
SlugIterate ==
    /\ pc = "loop"
    /\ Len(loop.st.rest) > 0
    /\ loop' = [st       |-> slugStep(loop.st, Sep),
                iters    |-> loop.iters + 1,
                prevOut  |-> loop.st.out,
                lastR    |-> DecodeRune(loop.st.rest).r,
                lastSize |-> DecodeRune(loop.st.rest).size]
    /\ UNCHANGED <<values, log, text, slug, pc, run, mem>>

\* the trims and the copy after the loop
SlugReturn ==
    /\ pc = "loop"
    /\ Len(loop.st.rest) = 0
    /\ slug' = trimLeading(trimTrailing(loop.st.out, Sep), Sep)
    /\ pc' = "done"
    /\ UNCHANGED <<values, log, text, loop, run, mem>>

NextSlugLoop == SlugEnter \/ SlugIterate \/ SlugReturn

SpecSlugLoop == InitSlugLoop /\ [][NextSlugLoop]_vars

\* C13: slugify is total on malformed input: every iteration consumes at
\* least one byte (so there are at most len(text) iterations and the call
\* can always go on until it returns); an undecodable byte writes a
\* collapsed separator and nothing else; no byte written is non-ASCII;
\* 'a', 0xFF, 'b' gives "a-b".
C13_TotalOnMalformed ==
    /\ pc = "loop" => loop.iters + Len(loop.st.rest) <= Len(text)
    /\ pc # "done" => ENABLED NextSlugLoop
    /\ \A p \in 1..Len(loop.st.out) : loop.st.out[p] < 128
    /\ \A p \in 1..Len(slug) : slug[p] < 128
    /\ (pc = "loop" /\ loop.iters > 0 /\ loop.lastR = RuneError /\ loop.lastSize = 1)
          => /\ loop.st.out =
                   (IF loop.prevOut = <<>> \/ loop.prevOut[Len(loop.prevOut)] = 45
                    THEN loop.prevOut
                    ELSE loop.prevOut \o <<45>>)
             /\ loop.st.out # <<>> => loop.st.prevSep
    /\ (pc = "done" /\ text = <<97, 255, 98>>) => slug = <<97, 45, 98>>

\* the call on 'a', 0xFF, 'b' has returned "a-b"
C13_Witness ==
    pc = "done" /\ text = <<97, 255, 98>> /\ slug = <<97, 45, 98>>

---------------------------------------------------------------------------
(* SpecSerial, SpecRace: Generate and Put, one map access per step *)

\* the goroutines that call the registry
Callers == {"c1", "c2"}

\* Texts handed to Generate: "" and "Intro"; identifiers handed to Put:
\* "intro", "intro-1", "intro-2".
RunTexts == { <<>>, <<73, 110, 116, 114, 111>> }
RunPutArgs ==
    { <<105, 110, 116, 114, 111>>,
      <<105, 110, 116, 114, 111, 45, 49>>,
      <<105, 110, 116, 114, 111, 45, 50>> }

\* a caller outside any call
IdleCall == [pc |-> "idle", op |-> "none", arg |-> <<>>, kind |-> "none",
             result |-> <<>>, i |-> 0, key |-> <<>>, pre |-> {},
             overlapped |-> FALSE]

\* mapHas with a fault: the membership test is dropped
mapHas_Never(vals, key) == FALSE

\* _, ok := s.values[key]
mapHas(vals, key) == key \in vals

\* nextSuffix with a fault: the suffix is not incremented
nextSuffix_Stuck(i) == i

\* i++
nextSuffix(i) == i + 1

InitRun ==
    /\ values = {}
    /\ log = <<>>
    /\ text = <<>>
    /\ slug = <<>>
    /\ pc = "idle"
    /\ loop = NoLoop
    /\ run = [c \in Callers |-> IdleCall]
    /\ mem = NoMem

Active(c) == run[c].pc \in {"test", "probe", "insert"}

\* calls begun so far
Begun == Len(log) + Cardinality({c \in Callers : Active(c)})

\* a call of c begins: it overlaps every call in progress
Overlap(c, call) ==
    [d \in Callers |->
        IF d = c THEN [call EXCEPT !.overlapped = \E e \in Callers \ {c} : Active(e)]
        ELSE IF Active(d) THEN [run[d] EXCEPT !.overlapped = TRUE]
        ELSE run[d]]

\* Generate is entered: result := slugify(value,'-'), or the fallback token
GenBegin(c, value, kind) ==
    /\ run[c].pc = "idle"
    /\ Begun < MaxCalls
    /\ run' = Overlap(c, [IdleCall EXCEPT !.pc = "test", !.op = "Generate",
                                          !.arg = value, !.kind = kind,
                                          !.result = Candidate(value, kind),
                                          !.pre = values])
    /\ UNCHANGED <<values, log, text, slug, pc, loop, mem>>

\* if _, ok := s.values[result]; !ok { ... } ; else for i := 1
GenTest(c) ==
    /\ run[c].pc = "test"
    /\ run' = [run EXCEPT ![c] =
                  IF ~mapHas(values, run[c].result)
                  THEN [@ EXCEPT !.pc = "insert", !.key = run[c].result]
                  ELSE [@ EXCEPT !.pc = "probe", !.i = 1]]
    /\ UNCHANGED <<values, log, text, slug, pc, loop, mem>>

\* newResult := Sprintf(result, i); if _, ok := s.values[newResult]; !ok
\* { ... } ; else i++
GenProbe(c) ==
    /\ run[c].pc = "probe"
    /\ run' = [run EXCEPT ![c] =
                  IF ~mapHas(values, Sprintf(run[c].result, run[c].i))
                  THEN [@ EXCEPT !.pc = "insert", !.key = Sprintf(run[c].result, run[c].i)]
                  ELSE [@ EXCEPT !.i = nextSuffix(run[c].i)]]
    /\ UNCHANGED <<values, log, text, slug, pc, loop, mem>>

\* Put is entered
PutBegin(c, value) ==
    /\ run[c].pc = "idle"
    /\ Begun < MaxCalls
    /\ run' = Overlap(c, [IdleCall EXCEPT !.pc = "insert", !.op = "Put",
                                          !.arg = value, !.key = putKey(value),
                                          !.pre = values])
    /\ UNCHANGED <<values, log, text, slug, pc, loop, mem>>

\* s.values[key] = true, and the return
MapInsert(c) ==
    /\ run[c].pc = "insert"
    /\ values' = values \cup {run[c].key}
    /\ log' = Append(log, [op |-> run[c].op, arg |-> run[c].arg,
                           kind |-> run[c].kind, pre |-> run[c].pre,
                           ret |-> IF run[c].op = "Generate" THEN run[c].key ELSE <<>>,
                           caller |-> c, probes |-> run[c].i,
                           overlapped |-> run[c].overlapped])
    /\ run' = [run EXCEPT ![c] = IdleCall]
    /\ UNCHANGED <<text, slug, pc, loop, mem>>

\* Unsynchronized access to a Go map is a data race: when one caller is
\* about to write the map while another is about to read or write it, the
\* runtime may stop the program ("fatal error: concurrent map writes");
\* otherwise the accesses take effect one after the other.
RaceFault ==
    /\ \E c, d \in Callers :
          c # d /\ run[c].pc = "insert" /\ Active(d)
    /\ run' = [c \in Callers |-> [run[c] EXCEPT !.pc = "crashed"]]
    /\ UNCHANGED <<values, log, text, slug, pc, loop, mem>>

\* the host serializes: a call begins only when no other call is in progress
Serialized(c) == \A d \in Callers \ {c} : run[d].pc = "idle"

NextSerial ==
    \/ \E c \in Callers, value \in RunTexts, kind \in Kinds :
          Serialized(c) /\ GenBegin(c, value, kind)
    \/ \E c \in Callers, value \in RunPutArgs : Serialized(c) /\ PutBegin(c, value)
    \/ \E c \in Callers : GenTest(c)
    \/ \E c \in Callers : GenProbe(c)
    \/ \E c \in Callers : MapInsert(c)

\* a call that has begun keeps executing: the code is synchronous
SpecSerial ==
    /\ InitRun
    /\ [][NextSerial]_vars
    /\ \A c \in Callers : WF_vars(GenTest(c) \/ GenProbe(c) \/ MapInsert(c))

NextRace ==
    \/ \E c \in Callers, value \in RunTexts, kind \in Kinds : GenBegin(c, value, kind)
    \/ \E c \in Callers, value \in RunPutArgs : PutBegin(c, value)
    \/ \E c \in Callers : GenTest(c)
    \/ \E c \in Callers : GenProbe(c)
    \/ \E c \in Callers : MapInsert(c)
    \/ RaceFault

SpecRace == InitRun /\ [][NextRace]_vars

---------------------------------------------------------------------------
(* Properties of the step-wise registry *)

\* C12 (checked under SpecSerial): the suffix search of Generate always
\* terminates: a caller in the search leaves it and returns; the probe in
\* progress is never beyond |set| + 1 and can always be made (no cap on
\* the suffix); every Generate returned after at most |set| + 1 probes, the
\* set being the one it found.
C12_SuffixSearchTerminates ==
    /\ [](\A c \in Callers :
            run[c].pc = "probe" =>
                /\ run[c].i <= Cardinality(values) + 1
                /\ ENABLED GenProbe(c))
    /\ [](\A j \in 1..Len(log) :
            log[j].op = "Generate" => log[j].probes <= Cardinality(log[j].pre) + 1)
    /\ \A c \in Callers : (run[c].pc = "probe") ~> (run[c].pc = "idle")

\* a Generate that returned after two probes: the candidate and its first
\* suffix were taken
C12_Witness ==
    \E j \in 1..Len(log) :
        /\ log[j].op = "Generate"
        /\ log[j].probes = 2
        /\ log[j].ret = Suffixed(Candidate(log[j].arg, log[j].kind), 2)

\* C14 (checked under SpecRace, where calls of two callers interleave
\* freely): two Generate calls return the same identifier only if each ran
\* while another call was in progress; calls that the host serializes never
\* return a duplicate.
C14_DuplicateOnlyWhenInterleaved ==
    \A i, j \in 1..Len(log) :
        (i # j /\ log[i].op = "Generate" /\ log[j].op = "Generate"
             /\ log[i].ret = log[j].ret)
            => log[i].overlapped /\ log[j].overlapped

\* two callers ran Generate with the same candidate, both tested membership
\* before either inserted, and both received the same identifier
C14_Witness ==
    \E i, j \in 1..Len(log) :
        /\ i # j
        /\ log[i].op = "Generate" /\ log[j].op = "Generate"
        /\ log[i].caller # log[j].caller
        /\ log[i].ret = log[j].ret
        /\ log[i].pre = log[j].pre
        /\ Candidate(log[i].arg, log[i].kind) = Candidate(log[j].arg, log[j].kind)

---------------------------------------------------------------------------
(* SpecAlias: the registry with the memory its keys share with callers *)

\* util.BytesToReadOnlyString(b) makes a string header over the bytes of b
\* without copying.  mem.heap holds the byte slices callers can see (the
\* slices Generate returned and the slices given to Put), mem.keys the keys
\* of the map: hkey is the string the key was hashed and stored under, buf
\* the slice whose bytes the key shares (0: the key owns its bytes, as the
\* string made by Sprintf does).  mem.issued records the calls.

\* Texts handed to Generate: "Intro", "" and "xntro"; identifier handed to
\* Put: "intro".
AliasTexts == { <<73, 110, 116, 114, 111>>, <<>>, <<120, 110, 116, 114, 111>> }
AliasPutArgs == { <<105, 110, 116, 114, 111>> }

\* the bytes a key of the map reads now
KeyBytes(e) == IF e.buf = 0 THEN e.hkey ELSE mem.heap[e.buf]

\* _, ok := s.values[k].  A key whose bytes still are the string it was
\* stored under is found.  A key whose bytes were overwritten is not found
\* under the old string (the byte comparison fails); under the string its
\* bytes spell now it is found or not, depending on where the hash of that
\* string leads (hit).
memHas(k, hit) ==
    \E e \in mem.keys : KeyBytes(e) = k /\ (e.hkey = k \/ hit)

RECURSIVE memSuffixSearch(_, _, _)
\* the suffix loop over the map with shared keys
memSuffixSearch(result, i, hit) ==
    IF ~memHas(Sprintf(result, i), hit)
    THEN Sprintf(result, i)
    ELSE memSuffixSearch(result, i + 1, hit)

InitAlias ==
    /\ values = {}
    /\ log = <<>>
    /\ text = <<>>
    /\ slug = <<>>
    /\ pc = "idle"
    /\ loop = NoLoop
    /\ run = NoRun
    /\ mem = NoMem

\* ids.Generate.  result is a fresh slice (the copy slugify returns, or
\* []byte("heading")); when it is not in the map it becomes the key, without
\* a copy, and is returned: key and returned slice share their bytes.  A
\* suffixed identifier is a string of its own and []byte(newResult) a copy.
AliasGenerate(value, kind, hit) ==
    /\ Len(mem.issued) < MaxCalls
    /\ LET result == Candidate(value, kind)
           b      == Len(mem.heap) + 1
           fresh  == ~memHas(result, hit)
           ret    == IF fresh THEN result ELSE memSuffixSearch(result, 1, hit)
       IN  mem' = [heap   |-> Append(mem.heap, ret),
                   keys   |-> mem.keys \cup
                                {[hkey |-> ret, buf |-> IF fresh THEN b ELSE 0]},
                   issued |-> Append(mem.issued,
                                     [op |-> "Generate", id |-> ret, buf |-> b])]
    /\ UNCHANGED <<values, log, text, slug, pc, loop, run>>

\* the keys the lookup of k can end on
memFound(k, hit) ==
    {e \in mem.keys : KeyBytes(e) = k /\ (e.hkey = k \/ hit)}

\* ids.Put(value): s.values[util.BytesToReadOnlyString(value)] = true.  The
\* key shares the bytes of the caller's slice.  When the map already holds
\* the string, the assignment still stores the new string header in the slot
\* of the key it found: the key stays where its hash put it (hkey) and from
\* then on shares the bytes of this call's slice, no longer those of the old.
AliasPut(value, hit) ==
    /\ Len(mem.issued) < MaxCalls
    /\ LET b     == Len(mem.heap) + 1
           found == memFound(value, hit)
           slots == IF found = {} THEN {[hkey |-> value, buf |-> b]} ELSE found
       IN  \E e \in slots :
              mem' = [heap   |-> Append(mem.heap, value),
                      keys   |-> (mem.keys \ {e})
                                    \cup {[hkey |-> e.hkey, buf |-> b]},
                      issued |-> Append(mem.issued,
                                        [op |-> "Put", id |-> value, buf |-> b])]
    /\ UNCHANGED <<values, log, text, slug, pc, loop, run>>

\* The caller overwrites the first byte of a slice it holds with 'x'.
CallerOverwrite(b) ==
    /\ b \in 1..Len(mem.heap)
    /\ Len(mem.heap[b]) > 0
    /\ mem.heap[b][1] # 120
    /\ mem' = [mem EXCEPT !.heap[b] = [@ EXCEPT ![1] = 120]]
    /\ UNCHANGED <<values, log, text, slug, pc, loop, run>>

NextAlias ==
    \/ \E value \in AliasTexts, kind \in Kinds, hit \in BOOLEAN :
          AliasGenerate(value, kind, hit)
    \/ \E value \in AliasPutArgs, hit \in BOOLEAN : AliasPut(value, hit)
    \/ \E b \in 1..Len(mem.heap) : CallerOverwrite(b)

SpecAlias == InitAlias /\ [][NextAlias]_vars

\* C15: the keys of the set share no memory with bytes a caller can see:
\* whatever the caller overwrites, every identifier that was issued or
\* reserved stays a member, and Generate does not return an identifier that
\* was issued or reserved before.
C15_KeysExclusivelyOwned ==
    /\ \A e \in mem.keys : KeyBytes(e) = e.hkey
    /\ \A j \in 1..Len(mem.issued) : memHas(mem.issued[j].id, FALSE)
    /\ \A i, j \in 1..Len(mem.issued) :
           (i < j /\ mem.issued[j].op = "Generate")
               => mem.issued[j].id # mem.issued[i].id

=============================================================================
